---- MODULE Spec2Model ----
(***************************************************************************)
(* Model of workspace/two_sum_solution.py: the three two-sum variants      *)
(* (two_sum_brute_force, two_sum_hash_map, two_sum_two_pointers) executed  *)
(* step by step by the single-threaded driver on one (nums, target) input: *)
(* brute force, then hash map, then two pointers, for MaxCalls rounds.     *)
(* Positions are zero-based as in the source; At(s, k) reads s[k].         *)
(***************************************************************************)
EXTENDS Integers, Sequences, FiniteSets

VARIABLES nums, target, given, pc, i, j, num_map, indexed_nums, left, right,
          iters, results

vars == <<nums, target, given, pc, i, j, num_map, indexed_nums, left, right,
          iters, results>>

\* ---------------------------------------------------------------- bounds
MaxLen == 3
MaxVal == 1
MaxCalls == 2

Vals == (0 - MaxVal) .. MaxVal
Targets == (0 - 2 * MaxVal) .. (2 * MaxVal)

RECURSIVE SeqsUpTo(_)
SeqsUpTo(n) ==
    IF n = 0 THEN {<<>>}
    ELSE LET shorter == SeqsUpTo(n - 1)
         IN  shorter \cup {Append(s, v) : s \in {t \in shorter : Len(t) = n - 1}, v \in Vals}

\* ------------------------------------------------------- program constants
test_cases ==
    << <<(<<2, 7, 11, 15>>), 9>>,
       <<(<<3, 2, 4>>), 6>>,
       <<(<<3, 3>>), 6>>,
       <<(<<1, 2, 3, 4>>), 7>> >>

Expected == << {0, 1}, {1, 2}, {0, 1}, {2, 3} >>

Variants == {"bf", "hm", "tp"}

Inputs ==
    {test_cases[k] : k \in 1..Len(test_cases)}
        \cup {<<s, t>> : s \in SeqsUpTo(MaxLen), t \in Targets}

\* ------------------------------------------------------------ pure helpers
At(s, k) == s[k + 1]

EmptyMap == [x \in {} |-> 0]

BF_InnerStart_FromSelf(a) == a

BF_InnerStart(a) == a + 1

BF_Result_Swapped(a, b) == <<b, a>>

BF_Result(a, b) == <<a, b>>

Complement_Negated(tgt, num) == num - tgt

Complement(tgt, num) == tgt - num

HM_Result_Swapped(map, c, a) == <<a, map[c]>>

HM_Result(map, c, a) == <<map[c], a>>

HM_Insert_FirstWins(map, num, a) ==
    [x \in DOMAIN map \cup {num} |-> IF x \in DOMAIN map THEN map[x] ELSE a]

HM_Insert(map, num, a) ==
    [x \in DOMAIN map \cup {num} |-> IF x = num THEN a ELSE map[x]]

IndexedNums(ns) == [k \in 1..Len(ns) |-> <<ns[k], k - 1>>]

\* list.sort is stable: x goes behind every element whose key is <= its key
RECURSIVE InsertByNum(_, _)
InsertByNum(sorted, x) ==
    IF sorted = <<>> THEN <<x>>
    ELSE IF sorted[Len(sorted)][1] <= x[1] THEN Append(sorted, x)
    ELSE Append(InsertByNum(SubSeq(sorted, 1, Len(sorted) - 1), x),
                sorted[Len(sorted)])

SortByNum_None(s) == s

RECURSIVE SortByNum(_)
SortByNum(s) ==
    IF s = <<>> THEN <<>>
    ELSE InsertByNum(SortByNum(SubSeq(s, 1, Len(s) - 1)), s[Len(s)])

LoopCond_StopEarly(l, r) == l < r - 1

LoopCond(l, r) == l < r

TP_Result_SortedPos(inums, l, r) == <<l, r>>

TP_Result(inums, l, r) == <<At(inums, l)[2], At(inums, r)[2]>>

TP_Advance_Both(sum, tgt, l, r) ==
    IF sum < tgt THEN <<l + 1, r>> ELSE <<l + 1, r - 1>>

TP_Advance(sum, tgt, l, r) ==
    IF sum < tgt THEN <<l + 1, r>> ELSE <<l, r - 1>>

\* ------------------------------------------------------------------ state
Init ==
    /\ \E inp \in Inputs : nums = inp[1] /\ target = inp[2] /\ given = inp
    /\ pc = "idle"
    /\ i = 0 /\ j = 0
    /\ num_map = EmptyMap
    /\ indexed_nums = <<>>
    /\ left = 0 /\ right = 0
    /\ iters = 0
    /\ results = [v \in Variants |-> <<>>]

\* a return discards the callee's locals and hands the value to the caller
Return(v, value) ==
    /\ results' = [results EXCEPT ![v] = Append(@, value)]
    /\ pc' = "idle"
    /\ i' = 0 /\ j' = 0
    /\ num_map' = EmptyMap
    /\ indexed_nums' = <<>>
    /\ left' = 0 /\ right' = 0

\* ---------------------------------------------------- two_sum_brute_force
Call_bf ==
    /\ pc = "idle"
    /\ Len(results["bf"]) < MaxCalls
    /\ Len(results["bf"]) = Len(results["tp"])
    /\ pc' = "bf_outer"
    /\ i' = 0
    /\ UNCHANGED <<nums, target, given, j, num_map, indexed_nums, left, right,
                   iters, results>>

BF_Outer ==
    /\ pc = "bf_outer"
    /\ IF i < Len(nums)
       THEN /\ j' = BF_InnerStart(i)
            /\ pc' = "bf_inner"
            /\ UNCHANGED <<i, num_map, indexed_nums, left, right, iters, results>>
       ELSE Return("bf", <<>>) /\ UNCHANGED iters
    /\ UNCHANGED <<nums, target, given>>

BF_Inner ==
    /\ pc = "bf_inner"
    /\ IF j < Len(nums)
       THEN IF At(nums, i) + At(nums, j) = target
            THEN Return("bf", BF_Result(i, j)) /\ UNCHANGED iters
            ELSE /\ j' = j + 1
                 /\ UNCHANGED <<pc, i, num_map, indexed_nums, left, right,
                                iters, results>>
       ELSE /\ i' = i + 1
            /\ pc' = "bf_outer"
            /\ UNCHANGED <<j, num_map, indexed_nums, left, right, iters, results>>
    /\ UNCHANGED <<nums, target, given>>

\* ------------------------------------------------------- two_sum_hash_map
Call_hm ==
    /\ pc = "idle"
    /\ Len(results["hm"]) < Len(results["bf"])
    /\ pc' = "hm_loop"
    /\ num_map' = EmptyMap
    /\ i' = 0
    /\ UNCHANGED <<nums, target, given, j, indexed_nums, left, right, iters,
                   results>>

HM_Step ==
    /\ pc = "hm_loop"
    /\ IF i < Len(nums)
       THEN LET num == At(nums, i)
                complement == Complement(target, num)
            IN  IF complement \in DOMAIN num_map
                THEN Return("hm", HM_Result(num_map, complement, i)) /\ UNCHANGED iters
                ELSE /\ num_map' = HM_Insert(num_map, num, i)
                     /\ i' = i + 1
                     /\ UNCHANGED <<pc, j, indexed_nums, left, right, iters,
                                    results>>
       ELSE Return("hm", <<>>) /\ UNCHANGED iters
    /\ UNCHANGED <<nums, target, given>>

\* --------------------------------------------------- two_sum_two_pointers
Call_tp_InPlace ==
    /\ pc = "idle"
    /\ Len(results["tp"]) < Len(results["hm"])
    /\ indexed_nums' = SortByNum(IndexedNums(nums))
    /\ nums' = [k \in 1..Len(nums) |-> indexed_nums'[k][1]]
    /\ left' = 0
    /\ right' = Len(indexed_nums') - 1
    /\ iters' = 0
    /\ pc' = "tp_loop"
    /\ UNCHANGED <<target, given, i, j, num_map, results>>

Call_tp ==
    /\ pc = "idle"
    /\ Len(results["tp"]) < Len(results["hm"])
    /\ indexed_nums' = SortByNum(IndexedNums(nums))
    /\ left' = 0
    /\ right' = Len(indexed_nums') - 1
    /\ iters' = 0
    /\ pc' = "tp_loop"
    /\ UNCHANGED <<nums, target, given, i, j, num_map, results>>

TP_Step ==
    /\ pc = "tp_loop"
    /\ IF LoopCond(left, right)
       THEN LET current_sum == At(indexed_nums, left)[1] + At(indexed_nums, right)[1]
            IN  IF current_sum = target
                THEN Return("tp", TP_Result(indexed_nums, left, right)) /\ iters' = iters + 1
                ELSE /\ left' = TP_Advance(current_sum, target, left, right)[1]
                     /\ right' = TP_Advance(current_sum, target, left, right)[2]
                     /\ iters' = iters + 1
                     /\ UNCHANGED <<pc, i, j, num_map, indexed_nums, results>>
       ELSE Return("tp", <<>>) /\ UNCHANGED iters
    /\ UNCHANGED <<nums, target, given>>

\* ---------------------------------------------------------- specification
Step == BF_Outer \/ BF_Inner \/ HM_Step \/ TP_Step

Next ==
    \/ Call_bf
    \/ BF_Outer
    \/ BF_Inner
    \/ Call_hm
    \/ HM_Step
    \/ Call_tp
    \/ TP_Step

Spec == Init /\ [][Next]_vars

\* a started call runs to its return: the interpreter keeps executing it
LiveSpec == Spec /\ WF_vars(Step)

TypeOK ==
    /\ pc \in {"idle", "bf_outer", "bf_inner", "hm_loop", "tp_loop"}
    /\ given \in Inputs
    /\ i \in 0..Len(nums) /\ j \in 0..(Len(nums) + 1)
    /\ \A v \in Variants : Len(results[v]) <= MaxCalls

\* ------------------------------------------------------ shared vocabulary
Positions == 0 .. (Len(nums) - 1)

\* a pair of distinct positions of the caller's sequence summing to target
ValidPair(a, b) ==
    /\ a \in Positions /\ b \in Positions
    /\ a # b
    /\ At(nums, a) + At(nums, b) = target

SomePairExists == \E a \in Positions, b \in Positions : ValidPair(a, b)

Returned(v) == {results[v][k] : k \in 1..Len(results[v])}

AllReturned == UNION {Returned(v) : v \in Variants}

SetMax(S) == CHOOSE x \in S : \A y \in S : y <= x

SetMin(S) == CHOOSE x \in S : \A y \in S : x <= y

\* ---------------------------------------------------------------------- C1
\* C1: soundness. Every non-empty result [a, b] returned by any of the three
\* variants names two distinct positions of the ORIGINAL input sequence whose
\* values sum to target.
C1_Soundness ==
    \A r \in AllReturned :
        r # <<>> =>
            /\ Len(r) = 2
            /\ r[1] \in 0 .. (Len(given[1]) - 1)
            /\ r[2] \in 0 .. (Len(given[1]) - 1)
            /\ r[1] # r[2]
            /\ At(given[1], r[1]) + At(given[1], r[2]) = given[2]

\* all three variants have returned a pair on an unsorted input holding a
\* negative value and a duplicate
C1_Witness ==
    /\ \A v \in Variants : \E r \in Returned(v) : r # <<>>
    /\ \E a \in Positions : At(nums, a) < 0
    /\ \E a \in Positions, b \in Positions : a < b /\ At(nums, a) = At(nums, b)
    /\ \E a \in Positions, b \in Positions : a < b /\ At(nums, a) > At(nums, b)

\* ---------------------------------------------------------------------- C2
\* C2: completeness. If a variant returns the empty marker then no pair of
\* distinct positions sums to target; so whenever a valid pair exists each
\* variant returns a non-empty result.
C2_Completeness ==
    \A r \in AllReturned : r = <<>> => ~SomePairExists

\* every variant has answered an input whose only valid pairs are pairs of
\* equal values, and some variant has answered an input without any pair
C2_Witness ==
    /\ \A v \in Variants : Returned(v) # {}
    /\ SomePairExists
    /\ \A a \in Positions, b \in Positions :
           ValidPair(a, b) => At(nums, a) = At(nums, b)
    /\ Len(nums) = 3

C2_WitnessEmpty ==
    /\ \A v \in Variants : <<>> \in Returned(v)
    /\ Len(nums) = 3

\* ---------------------------------------------------------------------- C3
\* C3: boundary. On a sequence of length 0 or 1 every variant returns the
\* empty marker for every target, never pairing an element with itself.
C3_Boundary ==
    Len(given[1]) <= 1 => \A r \in AllReturned : r = <<>>

\* all three variants have answered a one-element input whose target is
\* twice that element
C3_Witness ==
    /\ Len(nums) = 1
    /\ target = 2 * nums[1]
    /\ \A v \in Variants : <<>> \in Returned(v)

\* ---------------------------------------------------------------------- C4
\* C4: on the four fixed scenarios of test_cases every variant returns the
\* expected pair of positions.
C4_Scenarios ==
    \A c \in 1..Len(test_cases) :
        given = test_cases[c] =>
            \A r \in AllReturned : Len(r) = 2 /\ {r[1], r[2]} = Expected[c]

\* the scenario [3, 2, 4], 6 has been answered by all three variants
C4_Witness ==
    /\ given = test_cases[2]
    /\ \A v \in Variants : Len(results[v]) >= 1

\* ---------------------------------------------------------------------- C5
\* C5: no variant mutates its input or keeps state across calls: the caller's
\* nums (and target) always equal what was passed, and a second call of a
\* variant returns what its first call returned.
C5_NoMutationNoState ==
    /\ nums = given[1]
    /\ target = given[2]
    /\ \A v \in Variants : Cardinality(Returned(v)) <= 1

\* every variant has been called twice on an unsorted input that has a pair
C5_Witness ==
    /\ \A v \in Variants : Len(results[v]) = 2
    /\ \E a \in Positions, b \in Positions : a < b /\ At(nums, a) > At(nums, b)
    /\ SomePairExists

\* ---------------------------------------------------------------------- C6
Scanned(v) == {p \in 0 .. (i - 1) : At(nums, p) = v}

\* C6 as stated: the mapping holds the FIRST occurrence of every scanned
\* value, and a returned first index is the smallest matching position.
C6_FirstSeen ==
    /\ pc = "hm_loop" =>
           \A v \in DOMAIN num_map : num_map[v] = SetMin(Scanned(v))
    /\ \A r \in Returned("hm") :
           r # <<>> =>
               r[1] = SetMin({p \in 0 .. (r[2] - 1) :
                                 At(nums, p) = target - At(nums, r[2])})

\* C6 amended: at every step of the scan the mapping's keys are exactly the
\* values already scanned and each is mapped to its LAST scanned occurrence;
\* a returned first index is the largest position p < i with
\* nums[p] = target - nums[i].
C6_LastSeen ==
    /\ pc = "hm_loop" =>
           /\ DOMAIN num_map = {At(nums, p) : p \in 0 .. (i - 1)}
           /\ \A v \in DOMAIN num_map : num_map[v] = SetMax(Scanned(v))
    /\ \A r \in Returned("hm") :
           r # <<>> =>
               r[1] = SetMax({p \in 0 .. (r[2] - 1) :
                                 At(nums, p) = target - At(nums, r[2])})

\* the scan has passed two occurrences of a value and later returned a pair
\* whose first index is the second of them
C6_Witness ==
    /\ \E r \in Returned("hm") :
           /\ r # <<>>
           /\ \E p \in 0 .. (r[1] - 1) : At(nums, p) = At(nums, r[1])
    /\ pc = "hm_loop" /\ i = 2 /\ nums[1] = nums[2]

\* ---------------------------------------------------------------------- C7
\* C7: two_sum_hash_map results are ordered: the first index is strictly
\* smaller than the second, and during the scan the mapping only holds
\* positions strictly below the current position.
C7_Ordered ==
    /\ \A r \in Returned("hm") : r # <<>> => r[1] < r[2]
    /\ pc = "hm_loop" => \A v \in DOMAIN num_map : num_map[v] < i

\* a pair of equal values was returned for target = 2 * value
C7_Witness ==
    \E r \in Returned("hm") :
        /\ r # <<>>
        /\ At(nums, r[1]) = At(nums, r[2])
        /\ target = 2 * At(nums, r[2])

\* ---------------------------------------------------------------------- C8
\* C8: two_sum_brute_force returns the lexicographically smallest valid pair
\* whenever some pair sums to target.
C8_LexSmallest ==
    \A r \in Returned("bf") :
        /\ SomePairExists => r # <<>>
        /\ r # <<>> =>
               /\ r[1] < r[2]
               /\ ValidPair(r[1], r[2])
               /\ \A a \in Positions, b \in Positions :
                      (a < b /\ ValidPair(a, b)) =>
                          ~(a < r[1] \/ (a = r[1] /\ b < r[2]))

\* brute force answered an input that has at least two different valid pairs
C8_Witness ==
    /\ \E r \in Returned("bf") : r # <<>>
    /\ Cardinality({ab \in Positions \X Positions :
                       ab[1] < ab[2] /\ ValidPair(ab[1], ab[2])}) >= 2

\* ---------------------------------------------------------------------- C9
NatMax(a, b) == IF a >= b THEN a ELSE b

\* what is left of the running call: decreases with every step of a call
Remaining ==
    CASE pc = "bf_outer" -> (Len(nums) - i) * (Len(nums) + 2) + Len(nums) + 1
      [] pc = "bf_inner" -> (Len(nums) - i) * (Len(nums) + 2) + (Len(nums) - j)
      [] pc = "hm_loop"  -> Len(nums) - i
      [] pc = "tp_loop"  -> right - left + 1
      [] OTHER           -> 0

LastResult(v) == results[v][Len(results[v])]

C9_State(bound) ==
    /\ Remaining \in Nat
    /\ Len(results["tp"]) >= 1 \/ pc = "tp_loop" => iters <= bound
    /\ pc = "tp_loop" => iters + (right - left) = Len(nums) - 1

C9_Action ==
    /\ (pc # "idle" /\ pc' # "idle") => Remaining' < Remaining
    /\ (pc = "tp_loop" /\ pc' = "tp_loop") =>
           LET current_sum == At(indexed_nums, left)[1] + At(indexed_nums, right)[1]
           IN  /\ left < right
               /\ \/ current_sum < target /\ left' = left + 1 /\ right' = right
                  \/ current_sum > target /\ left' = left /\ right' = right - 1
               /\ right' - left' < right - left
    /\ (pc = "tp_loop" /\ left >= right) =>
           pc' = "idle" /\ results'["tp"] = Append(results["tp"], <<>>)
    /\ (pc = "tp_loop" /\ pc' = "idle" /\ left < right) =>
           results'["tp"] # results["tp"] /\ Len(results'["tp"][Len(results'["tp"])]) = 2

\* C9 as stated: the two-pointer loop runs at most len(nums) - 1 iterations
\* on every input.
C9_IterationBound == C9_State(Len(nums) - 1)

\* C9 amended: every started call of every variant returns; in the
\* two-pointer scan each iteration that does not return moves exactly one
\* pointer by exactly one step, right - left strictly decreases, the loop
\* runs at most max(len(nums) - 1, 0) iterations and ends with a pair or,
\* as soon as left >= right, with the empty marker.
C9_Termination ==
    /\ [](C9_State(NatMax(Len(nums) - 1, 0)))
    /\ [][C9_Action]_vars
    /\ (pc # "idle") ~> (pc = "idle")

\* the two-pointer loop has used all len(nums) - 1 iterations of a
\* three-element input, moving each pointer once
C9_Witness ==
    /\ pc = "tp_loop"
    /\ Len(nums) = 3
    /\ iters = 2
    /\ left = 1 /\ right = 1

\* --------------------------------------------------------------------- C10
\* C10: at the head of every iteration of the two-pointer loop the indexed
\* copy is sorted ascending by value and is a permutation of the (value,
\* original index) pairs of the input, 0 <= left and right <= len(nums) - 1,
\* and every pair of sorted positions a < b whose values sum to target
\* satisfies left <= a and b <= right.
C10_LoopInvariant ==
    pc = "tp_loop" =>
        /\ Len(indexed_nums) = Len(nums)
        /\ \A a \in 1..Len(indexed_nums), b \in 1..Len(indexed_nums) :
               a < b => indexed_nums[a][1] <= indexed_nums[b][1]
        /\ {indexed_nums[k] : k \in 1..Len(indexed_nums)}
               = {<<At(nums, p), p>> : p \in Positions}
        /\ 0 <= left
        /\ right <= Len(nums) - 1
        /\ \A a \in Positions, b \in Positions :
               (a < b /\ At(indexed_nums, a)[1] + At(indexed_nums, b)[1] = target)
                   => (left <= a /\ b <= right)

\* a pointer has moved on an unsorted input and the pair is still ahead
C10_Witness ==
    /\ pc = "tp_loop"
    /\ left >= 1 \/ right <= Len(nums) - 2
    /\ left < right
    /\ \E a \in Positions, b \in Positions : a < b /\ At(nums, a) > At(nums, b)
    /\ At(indexed_nums, left)[1] + At(indexed_nums, right)[1] = target

====
